---- MODULE Spec2Model ----
(***************************************************************************)
(* CUBOTino-T runners: the batch runner demo_runner.py, the Tkinter        *)
(* controller gui_runner.py and the move-string inverse fragment.          *)
(*                                                                         *)
(* The servo backend (Cubotino_T_servos) is outside the repository: each   *)
(* call into it is an in-flight call of the main flow (variable call) or   *)
(* of a signal handler (variable hdepth) whose outcome is chosen           *)
(* nondeterministically when it returns.  Text is a sequence of one-       *)
(* character strings.                                                      *)
(***************************************************************************)
EXTENDS Integers, Sequences, FiniteSets, TLC

VARIABLES
    prog,        \* which script runs: "demo_runner" or "gui_runner"
    pc,          \* position of the main flow
    handler,     \* signal name -> installed disposition
    wm_delete,   \* WM_DELETE_WINDOW protocol handler installed
    args,        \* demo_runner: argparse namespace
    move_var,    \* gui_runner: text of the entry box
    start_pos,   \* gui_runner: start position radio
    fast_mode,   \* gui_runner: Fast checkbox
    quiet_mode,  \* gui_runner: Quiet checkbox
    servo_ok,    \* gui_runner: self.servo_ok
    status_lbl,  \* gui_runner: text of the status label
    moves,       \* gui_runner: local `moves` of _run_moves
    status,      \* local status / robot_status returned by the run
    dialog,      \* gui_runner: modal messagebox on screen
    call,        \* backend call of the main flow that is in flight
    hdepth,      \* nested signal-handler invocations inside stopping_servos
    quitVia,     \* how the outermost handler invocation was entered
    sigCount,    \* signals / close requests delivered so far
    stopCalls,   \* stopping_servos() calls issued so far
    initCfg,     \* what the last init_servo call that returned ok was told
    destroyed,   \* gui_runner: master.destroy() has run
    exitCode,    \* process exit status, Alive until it ends
    exitPath,    \* why the process ended
    s,           \* inverse fragment: input move string
    inv,         \* inverse fragment: printed result
    inv2         \* inverse fragment applied to its own result

vars == <<prog, pc, handler, wm_delete, args, move_var, start_pos, fast_mode,
          quiet_mode, servo_ok, status_lbl, moves, status, dialog, call,
          hdepth, quitVia, sigCount, stopCalls, initCfg, destroyed, exitCode,
          exitPath, s, inv, inv2>>

guiVars == <<move_var, start_pos, fast_mode, quiet_mode, servo_ok, status_lbl,
             moves, dialog, destroyed>>
invVars == <<s, inv, inv2>>

----------------------------------------------------------------------------
\* Bounds of the exploration.

\* longest text typed into the entry box or given as --moves
MaxLen == 2
\* longest text the move buttons build in the entry box
MaxBuf == 3
\* termination requests (signals, window closes) delivered in one run
MaxSignals == 2
\* longest move sequence, in tokens, given to the inverse fragment
MaxTokens == 3

----------------------------------------------------------------------------
\* Text.

\* characters a user types: a face, an amount, an out-of-range digit, a
\* letter that is no face, a blank
Chars == {"F", "1", "9", "X", " "}

SeqsUpTo(S, n) == UNION {[1..k -> S] : k \in 0..n}

Texts == SeqsUpTo(Chars, MaxLen)

RECURSIVE LStrip(_)
LStrip(t) == IF t # <<>> /\ Head(t) = " " THEN LStrip(Tail(t)) ELSE t

RECURSIVE RStrip(_)
RStrip(t) ==
    IF t # <<>> /\ t[Len(t)] = " " THEN RStrip(SubSeq(t, 1, Len(t) - 1)) ELSE t

\* str.strip()
Strip(t) == RStrip(LStrip(t))

\* str.lower() on the letters a status is made of
LowerChar(c) == CASE c = "K" -> "k" [] c = "O" -> "o" [] OTHER -> c

Lower(t) == [i \in 1..Len(t) |-> LowerChar(t[i])]

\* str.startswith
StartsWith(t, p) == Len(t) >= Len(p) /\ SubSeq(t, 1, Len(p)) = p

\* statuses the backend run may report
Statuses == { <<"K", "O">>, <<"k", "o", "x">>, <<"o", "k">>, <<"k">> }

----------------------------------------------------------------------------
\* Values.

\* exitCode of a process that has not ended
Alive == 0 - 1
Signals == {"SIGINT", "SIGTERM"}
\* exit status of a process ended by the default disposition of a signal
KilledBy(sig) == IF sig = "SIGINT" THEN 130 ELSE 143

NoCall == [fn |-> "none"]
NoCfg == [fn |-> "none"]
\* the argument of init_servo that a later servo_solve_cube is given again
Told(c) == [fn |-> c.fn, print_out |-> c.print_out]
NoArgs == [moves |-> <<>>, start |-> "read", fast |-> FALSE, quiet |-> FALSE]
NoStatus == <<"-">>

StartChoices == {"open", "read", "close"}

StopCall == [fn |-> "stopping_servos"]
DisplayCall == [fn |-> "show_on_display", title |-> "FINISHED"]

InitCall(print_out, start, fast) ==
    [fn |-> "init_servo", print_out |-> print_out, start_pos |-> start,
     f_to_close_mode |-> fast, init_display |-> TRUE]

RunCall(mv, print_out) ==
    [fn |-> "servo_solve_cube", moves |-> mv, print_out |-> print_out]

----------------------------------------------------------------------------
\* Process start and end.

InitCommon ==
    /\ pc = "start"
    /\ handler = [sg \in Signals |-> "SIG_DFL"]
    /\ wm_delete = FALSE
    /\ move_var = <<>>
    /\ start_pos = "read"
    /\ fast_mode = FALSE
    /\ quiet_mode = FALSE
    /\ servo_ok = FALSE
    /\ status_lbl = "Servo not initialised."
    /\ moves = <<>>
    /\ status = NoStatus
    /\ dialog = "none"
    /\ call = NoCall
    /\ hdepth = 0
    /\ quitVia = "none"
    /\ sigCount = 0
    /\ stopCalls = 0
    /\ initCfg = NoCfg
    /\ destroyed = FALSE
    /\ exitCode = Alive
    /\ exitPath = "none"

\* demo_runner is started with any accepted command line; gui_runner with none
Init ==
    /\ InitCommon
    /\ \/ /\ prog = "demo_runner"
          /\ args \in [moves : Texts, start : StartChoices,
                       fast : BOOLEAN, quiet : BOOLEAN]
       \/ /\ prog = "gui_runner"
          /\ args = NoArgs
    /\ s = <<>>
    /\ inv = <<>>
    /\ inv2 = <<>>

\* the interpreter leaves: nothing of the main flow or of a handler remains
Exit(code, path) ==
    /\ pc' = "exited"
    /\ exitCode' = code
    /\ exitPath' = path
    /\ call' = NoCall
    /\ hdepth' = 0

MainFlow(p, at) == prog = p /\ pc = at /\ hdepth = 0

----------------------------------------------------------------------------
\* demo_runner.py

BatchRegisterSIGINT ==
    /\ MainFlow("demo_runner", "start")
    /\ handler' = [handler EXCEPT !["SIGINT"] = "graceful_quit"]
    /\ pc' = "reg_sigterm"
    /\ UNCHANGED <<prog, wm_delete, args, guiVars, status, call, hdepth,
                   quitVia, sigCount, stopCalls, initCfg, exitCode, exitPath,
                   invVars>>

\* line 35 left out: main() starts with SIGTERM at its default disposition
BatchRegisterSIGTERM_Skipped ==
    /\ MainFlow("demo_runner", "reg_sigterm")
    /\ pc' = "main"
    /\ UNCHANGED <<prog, handler, wm_delete, args, guiVars, status, call,
                   hdepth, quitVia, sigCount, stopCalls, initCfg, exitCode,
                   exitPath, invVars>>

BatchRegisterSIGTERM ==
    /\ MainFlow("demo_runner", "reg_sigterm")
    /\ handler' = [handler EXCEPT !["SIGTERM"] = "graceful_quit"]
    /\ pc' = "main"
    /\ UNCHANGED <<prog, wm_delete, args, guiVars, status, call, hdepth,
                   quitVia, sigCount, stopCalls, initCfg, exitCode, exitPath,
                   invVars>>

\* main(): the command line is parsed, then init_servo(...) is called
BatchInitCall ==
    /\ MainFlow("demo_runner", "main")
    /\ call' = InitCall(~args.quiet, args.start, args.fast)
    /\ pc' = "init"
    /\ UNCHANGED <<prog, handler, wm_delete, args, guiVars, status, hdepth,
                   quitVia, sigCount, stopCalls, initCfg, exitCode, exitPath,
                   invVars>>

\* the `if not ok` exit left out: the run follows whatever init_servo said
BatchInitReturn_IgnoresOk ==
    /\ MainFlow("demo_runner", "init")
    /\ \E ok \in BOOLEAN :
          /\ initCfg' = IF ok THEN Told(call) ELSE initCfg
          /\ call' = RunCall(args.moves, ~args.quiet)
          /\ pc' = "run"
          /\ UNCHANGED <<hdepth, exitCode, exitPath>>
    /\ UNCHANGED <<prog, handler, wm_delete, args, guiVars, status, quitVia,
                   sigCount, stopCalls, invVars>>

\* init_servo returns (ok, timers): not ok exits with a message, ok goes on
\* to servo_solve_cube(moves=args.moves, ...)
BatchInitReturn ==
    /\ MainFlow("demo_runner", "init")
    /\ \E ok \in BOOLEAN :
          IF ~ok
          THEN /\ Exit(1, "init_failed")
               /\ UNCHANGED initCfg
          ELSE /\ initCfg' = Told(call)
               /\ call' = RunCall(args.moves, ~args.quiet)
               /\ pc' = "run"
               /\ UNCHANGED <<hdepth, exitCode, exitPath>>
    /\ UNCHANGED <<prog, handler, wm_delete, args, guiVars, status, quitVia,
                   sigCount, stopCalls, invVars>>

\* servo_solve_cube returns (robot_status, robot_time) or raises; whatever
\* the status, FINISHED is sent to the display
BatchRunReturn ==
    /\ MainFlow("demo_runner", "run")
    /\ \/ \E st \in Statuses :
             /\ status' = st
             /\ call' = DisplayCall
             /\ pc' = "disp"
             /\ UNCHANGED <<hdepth, exitCode, exitPath>>
       \/ /\ Exit(1, "exception")
          /\ UNCHANGED status
    /\ UNCHANGED <<prog, handler, wm_delete, args, guiVars, quitVia, sigCount,
                   stopCalls, initCfg, invVars>>

\* s_disp.show_on_display returns or raises
BatchDisplayReturn ==
    /\ MainFlow("demo_runner", "disp")
    /\ \/ /\ call' = NoCall
          /\ pc' = "sleep"
          /\ UNCHANGED <<hdepth, exitCode, exitPath>>
       \/ Exit(1, "exception")
    /\ UNCHANGED <<prog, handler, wm_delete, args, guiVars, status, quitVia,
                   sigCount, stopCalls, initCfg, invVars>>

\* time.sleep(3) ends and stopping_servos() is called
BatchStopCall ==
    /\ MainFlow("demo_runner", "sleep")
    /\ call' = StopCall
    /\ stopCalls' = stopCalls + 1
    /\ pc' = "stop"
    /\ UNCHANGED <<prog, handler, wm_delete, args, guiVars, status, hdepth,
                   quitVia, sigCount, initCfg, exitCode, exitPath, invVars>>

\* stopping_servos() returns and main() ends, or it raises
BatchStopReturn ==
    /\ MainFlow("demo_runner", "stop")
    /\ \/ Exit(0, "completed")
       \/ Exit(1, "exception")
    /\ UNCHANGED <<prog, handler, wm_delete, args, guiVars, status, quitVia,
                   sigCount, stopCalls, initCfg, invVars>>

\* sys.exit(0) left out of graceful_quit: the handler returns into the frame
\* it interrupted
BatchHandlerReturn_NoExit ==
    /\ prog = "demo_runner"
    /\ pc # "exited"
    /\ hdepth > 0
    /\ hdepth' = hdepth - 1
    /\ UNCHANGED <<prog, pc, handler, wm_delete, args, guiVars, status, call,
                   quitVia, sigCount, stopCalls, initCfg, exitCode, exitPath,
                   invVars>>

\* graceful_quit: the innermost stopping_servos() returns and sys.exit(0)
\* unwinds every frame, or it raises and the exception does
BatchHandlerReturn ==
    /\ prog = "demo_runner"
    /\ pc # "exited"
    /\ hdepth > 0
    /\ \/ Exit(0, "interrupt")
       \/ Exit(1, "interrupt")
    /\ UNCHANGED <<prog, handler, wm_delete, args, guiVars, status, quitVia,
                   sigCount, stopCalls, initCfg, invVars>>

----------------------------------------------------------------------------
\* gui_runner.py

\* the move buttons
MoveButtons == { <<"F", "1">>, <<"R", "1">>, <<"R", "3">>, <<"S", "1">>,
                 <<"S", "3">> }

GuiRegisterSIGINT ==
    /\ MainFlow("gui_runner", "start")
    /\ handler' = [handler EXCEPT !["SIGINT"] = "_quit"]
    /\ pc' = "reg_sigterm"
    /\ UNCHANGED <<prog, wm_delete, args, guiVars, status, call, hdepth,
                   quitVia, sigCount, stopCalls, initCfg, exitCode, exitPath,
                   invVars>>

GuiRegisterSIGTERM ==
    /\ MainFlow("gui_runner", "reg_sigterm")
    /\ handler' = [handler EXCEPT !["SIGTERM"] = "_quit"]
    /\ pc' = "reg_wm"
    /\ UNCHANGED <<prog, wm_delete, args, guiVars, status, call, hdepth,
                   quitVia, sigCount, stopCalls, initCfg, exitCode, exitPath,
                   invVars>>

\* master.protocol("WM_DELETE_WINDOW", self._quit), then root.mainloop()
GuiRegisterWMDelete ==
    /\ MainFlow("gui_runner", "reg_wm")
    /\ wm_delete' = TRUE
    /\ pc' = "idle"
    /\ UNCHANGED <<prog, handler, args, guiVars, status, call, hdepth,
                   quitVia, sigCount, stopCalls, initCfg, exitCode, exitPath,
                   invVars>>

\* what the buffer holds after a move button
Appended(cur, mv) == Strip(Strip(cur) \o mv)

\* the button replaces the text instead of appending to it
GuiAppendMove_Replaces ==
    /\ MainFlow("gui_runner", "idle")
    /\ \E mv \in MoveButtons : move_var' = mv
    /\ UNCHANGED <<prog, pc, handler, wm_delete, args, start_pos, fast_mode,
                   quiet_mode, servo_ok, status_lbl, moves, status, dialog,
                   call, hdepth, quitVia, sigCount, stopCalls, initCfg,
                   destroyed, exitCode, exitPath, invVars>>

\* _append_move(mv)
GuiAppendMove ==
    /\ MainFlow("gui_runner", "idle")
    /\ \E mv \in MoveButtons :
          /\ Len(Appended(move_var, mv)) <= MaxBuf
          /\ move_var' = Appended(move_var, mv)
    /\ UNCHANGED <<prog, pc, handler, wm_delete, args, start_pos, fast_mode,
                   quiet_mode, servo_ok, status_lbl, moves, status, dialog,
                   call, hdepth, quitVia, sigCount, stopCalls, initCfg,
                   destroyed, exitCode, exitPath, invVars>>

\* the Clear button
GuiClear ==
    /\ MainFlow("gui_runner", "idle")
    /\ move_var' = <<>>
    /\ UNCHANGED <<prog, pc, handler, wm_delete, args, start_pos, fast_mode,
                   quiet_mode, servo_ok, status_lbl, moves, status, dialog,
                   call, hdepth, quitVia, sigCount, stopCalls, initCfg,
                   destroyed, exitCode, exitPath, invVars>>

\* the entry box is edited by hand
GuiEdit ==
    /\ MainFlow("gui_runner", "idle")
    /\ \E t \in Texts : move_var' = t
    /\ UNCHANGED <<prog, pc, handler, wm_delete, args, start_pos, fast_mode,
                   quiet_mode, servo_ok, status_lbl, moves, status, dialog,
                   call, hdepth, quitVia, sigCount, stopCalls, initCfg,
                   destroyed, exitCode, exitPath, invVars>>

\* the option controls: start position radios, Fast and Quiet checkboxes
GuiSetOption ==
    /\ MainFlow("gui_runner", "idle")
    /\ \/ /\ \E pos \in StartChoices : start_pos' = pos
          /\ UNCHANGED <<fast_mode, quiet_mode>>
       \/ /\ fast_mode' = ~fast_mode
          /\ UNCHANGED <<start_pos, quiet_mode>>
       \/ /\ quiet_mode' = ~quiet_mode
          /\ UNCHANGED <<start_pos, fast_mode>>
    /\ UNCHANGED <<prog, pc, handler, wm_delete, args, move_var, servo_ok,
                   status_lbl, moves, status, dialog, call, hdepth, quitVia,
                   sigCount, stopCalls, initCfg, destroyed, exitCode,
                   exitPath, invVars>>

\* the `if not moves` return left out: an empty request goes to the backend
GuiRunClick_NoEmptyCheck ==
    /\ MainFlow("gui_runner", "idle")
    /\ moves' = Strip(move_var)
    /\ IF ~servo_ok
       THEN /\ call' = InitCall(~quiet_mode, start_pos, fast_mode)
            /\ pc' = "init"
       ELSE /\ call' = RunCall(Strip(move_var), ~quiet_mode)
            /\ pc' = "run"
    /\ UNCHANGED <<prog, handler, wm_delete, args, move_var, start_pos,
                   fast_mode, quiet_mode, servo_ok, status_lbl, status,
                   dialog, hdepth, quitVia, sigCount, stopCalls, initCfg,
                   destroyed, exitCode, exitPath, invVars>>

\* the servo_ok test left out: every run() starts with init_servo
GuiRunClick_AlwaysInit ==
    /\ MainFlow("gui_runner", "idle")
    /\ LET mv == Strip(move_var) IN
          IF mv = <<>>
          THEN /\ dialog' = "No moves"
               /\ pc' = "dialog"
               /\ UNCHANGED <<moves, call>>
          ELSE /\ moves' = mv
               /\ UNCHANGED dialog
               /\ call' = InitCall(~quiet_mode, start_pos, fast_mode)
               /\ pc' = "init"
    /\ UNCHANGED <<prog, handler, wm_delete, args, move_var, start_pos,
                   fast_mode, quiet_mode, servo_ok, status_lbl, status,
                   hdepth, quitVia, sigCount, stopCalls, initCfg, destroyed,
                   exitCode, exitPath, invVars>>

\* _run_moves up to its first blocking call: the "No moves" box, the lazy
\* init_servo, or servo_solve_cube
GuiRunClick ==
    /\ MainFlow("gui_runner", "idle")
    /\ LET mv == Strip(move_var) IN
          IF mv = <<>>
          THEN /\ dialog' = "No moves"
               /\ pc' = "dialog"
               /\ UNCHANGED <<moves, call>>
          ELSE /\ moves' = mv
               /\ UNCHANGED dialog
               /\ IF ~servo_ok
                  THEN /\ call' = InitCall(~quiet_mode, start_pos, fast_mode)
                       /\ pc' = "init"
                  ELSE /\ call' = RunCall(mv, ~quiet_mode)
                       /\ pc' = "run"
    /\ UNCHANGED <<prog, handler, wm_delete, args, move_var, start_pos,
                   fast_mode, quiet_mode, servo_ok, status_lbl, status,
                   hdepth, quitVia, sigCount, stopCalls, initCfg, destroyed,
                   exitCode, exitPath, invVars>>

\* the early return of _run_moves left out: servo_solve_cube is called
\* whatever _init_servo answered
GuiInitReturn_KeepsGoing ==
    /\ MainFlow("gui_runner", "init")
    /\ \E ok \in BOOLEAN :
          /\ servo_ok' = ok
          /\ status_lbl' = IF ok THEN "Servo ready." ELSE "Servo init failed!"
          /\ initCfg' = IF ok THEN Told(call) ELSE initCfg
          /\ call' = RunCall(moves, ~quiet_mode)
          /\ pc' = "run"
          /\ UNCHANGED moves
    /\ UNCHANGED <<prog, handler, wm_delete, args, move_var, start_pos,
                   fast_mode, quiet_mode, status, dialog, hdepth, quitVia,
                   sigCount, stopCalls, destroyed, exitCode, exitPath,
                   invVars>>

\* _init_servo after init_servo returned, and the guard of _run_moves
GuiInitReturn ==
    /\ MainFlow("gui_runner", "init")
    /\ \E ok \in BOOLEAN :
          /\ servo_ok' = ok
          /\ status_lbl' = IF ok THEN "Servo ready." ELSE "Servo init failed!"
          /\ IF ok
             THEN /\ initCfg' = Told(call)
                  /\ call' = RunCall(moves, ~quiet_mode)
                  /\ pc' = "run"
                  /\ UNCHANGED moves
             ELSE /\ call' = NoCall
                  /\ pc' = "idle"
                  /\ moves' = <<>>
                  /\ UNCHANGED initCfg
    /\ UNCHANGED <<prog, handler, wm_delete, args, move_var, start_pos,
                   fast_mode, quiet_mode, status, dialog, hdepth, quitVia,
                   sigCount, stopCalls, destroyed, exitCode, exitPath,
                   invVars>>

\* status.lower().startswith("ko")
IsKo(st) == StartsWith(Lower(st), <<"k", "o">>)

\* an illegal-move status treated as a lost session: servo_ok is cleared
GuiRunReturn_KoFails ==
    /\ MainFlow("gui_runner", "run")
    /\ \/ \E st \in Statuses :
             /\ status' = st
             /\ IF IsKo(st)
                THEN /\ dialog' = "Illegal move"
                     /\ call' = NoCall
                     /\ pc' = "dialog"
                     /\ servo_ok' = FALSE
                     /\ UNCHANGED status_lbl
                ELSE /\ status_lbl' = "Finished"
                     /\ UNCHANGED <<dialog, servo_ok>>
                     /\ \E has_s_disp \in BOOLEAN :
                           IF has_s_disp
                           THEN call' = DisplayCall /\ pc' = "disp"
                           ELSE call' = NoCall /\ pc' = "sleep"
       \/ /\ dialog' = "Runtime error"
          /\ call' = NoCall
          /\ pc' = "dialog"
          /\ UNCHANGED <<status, status_lbl, servo_ok>>
    /\ UNCHANGED <<prog, handler, wm_delete, args, move_var, start_pos,
                   fast_mode, quiet_mode, moves, hdepth, quitVia, sigCount,
                   stopCalls, initCfg, destroyed, exitCode, exitPath,
                   invVars>>

\* the except clause left out: an exception of servo_solve_cube ends the
\* program
GuiRunReturn_Uncaught ==
    /\ MainFlow("gui_runner", "run")
    /\ \/ \E st \in Statuses :
             /\ status' = st
             /\ UNCHANGED <<hdepth, exitCode, exitPath>>
             /\ IF IsKo(st)
                THEN /\ dialog' = "Illegal move"
                     /\ call' = NoCall
                     /\ pc' = "dialog"
                     /\ UNCHANGED status_lbl
                ELSE /\ status_lbl' = "Finished"
                     /\ UNCHANGED dialog
                     /\ \E has_s_disp \in BOOLEAN :
                           IF has_s_disp
                           THEN call' = DisplayCall /\ pc' = "disp"
                           ELSE call' = NoCall /\ pc' = "sleep"
       \/ /\ Exit(1, "exception")
          /\ UNCHANGED <<status, status_lbl, dialog>>
    /\ UNCHANGED <<prog, handler, wm_delete, args, move_var, start_pos,
                   fast_mode, quiet_mode, servo_ok, moves, quitVia, sigCount,
                   stopCalls, initCfg, destroyed, invVars>>

\* servo_solve_cube returns (status, t) or raises
GuiRunReturn ==
    /\ MainFlow("gui_runner", "run")
    /\ \/ \E st \in Statuses :
             /\ status' = st
             /\ IF IsKo(st)
                THEN /\ dialog' = "Illegal move"
                     /\ call' = NoCall
                     /\ pc' = "dialog"
                     /\ UNCHANGED status_lbl
                ELSE /\ status_lbl' = "Finished"
                     /\ UNCHANGED dialog
                     /\ \E has_s_disp \in BOOLEAN :
                           IF has_s_disp
                           THEN call' = DisplayCall /\ pc' = "disp"
                           ELSE call' = NoCall /\ pc' = "sleep"
       \/ /\ dialog' = "Runtime error"
          /\ call' = NoCall
          /\ pc' = "dialog"
          /\ UNCHANGED <<status, status_lbl>>
    /\ UNCHANGED <<prog, handler, wm_delete, args, move_var, start_pos,
                   fast_mode, quiet_mode, servo_ok, moves, hdepth, quitVia,
                   sigCount, stopCalls, initCfg, destroyed, exitCode,
                   exitPath, invVars>>

\* ct.s_disp.show_on_display returns, or raises into the except clause
GuiDisplayReturn ==
    /\ MainFlow("gui_runner", "disp")
    /\ call' = NoCall
    /\ \/ pc' = "sleep" /\ UNCHANGED dialog
       \/ pc' = "dialog" /\ dialog' = "Runtime error"
    /\ UNCHANGED <<prog, handler, wm_delete, args, move_var, start_pos,
                   fast_mode, quiet_mode, servo_ok, status_lbl, moves, status,
                   hdepth, quitVia, sigCount, stopCalls, initCfg, destroyed,
                   exitCode, exitPath, invVars>>

\* the user dismisses the messagebox and _run_moves goes on
GuiDialogDismiss ==
    /\ MainFlow("gui_runner", "dialog")
    /\ dialog' = "none"
    /\ CASE dialog = "No moves" ->
              /\ pc' = "idle"
              /\ UNCHANGED <<status_lbl, moves, status>>
         [] dialog = "Illegal move" ->
              /\ status_lbl' = "Error: illegal move"
              /\ pc' = "sleep"
              /\ UNCHANGED <<moves, status>>
         [] dialog = "Runtime error" ->
              /\ status_lbl' = "Error - see dialog"
              /\ pc' = "idle"
              /\ moves' = <<>>
              /\ status' = NoStatus
    /\ UNCHANGED <<prog, handler, wm_delete, args, move_var, start_pos,
                   fast_mode, quiet_mode, servo_ok, call, hdepth, quitVia,
                   sigCount, stopCalls, initCfg, destroyed, exitCode,
                   exitPath, invVars>>

\* time.sleep(0.5) ends and _run_moves returns to the main loop
GuiSleepDone ==
    /\ MainFlow("gui_runner", "sleep")
    /\ pc' = "idle"
    /\ moves' = <<>>
    /\ status' = NoStatus
    /\ UNCHANGED <<prog, handler, wm_delete, args, move_var, start_pos,
                   fast_mode, quiet_mode, servo_ok, status_lbl, dialog, call,
                   hdepth, quitVia, sigCount, stopCalls, initCfg, destroyed,
                   exitCode, exitPath, invVars>>

\* the window is closed while the main loop is idle: _quit starts with
\* stopping_servos()
GuiWindowClose ==
    /\ MainFlow("gui_runner", "idle")
    /\ wm_delete
    /\ sigCount < MaxSignals
    /\ sigCount' = sigCount + 1
    /\ hdepth' = 1
    /\ quitVia' = "wm"
    /\ stopCalls' = stopCalls + 1
    /\ UNCHANGED <<prog, pc, handler, wm_delete, args, guiVars, status, call,
                   initCfg, exitCode, exitPath, invVars>>

\* the widgets and the locals of _run_moves go with the window
WidgetsGone ==
    /\ move_var' = <<>>
    /\ start_pos' = "read"
    /\ fast_mode' = FALSE
    /\ quiet_mode' = FALSE
    /\ moves' = <<>>
    /\ status' = NoStatus
    /\ dialog' = "none"

\* the frame the outermost _quit unwinds into is module code or the main
\* loop itself (an exception ends the script) rather than a Tk callback
\* (Tk reports the exception and the main loop of a destroyed application
\* returns)
AtTopLevel ==
    \/ pc \in {"start", "reg_sigterm", "reg_wm"}
    \/ pc = "idle" /\ quitVia = "signal"

\* _quit: the innermost stopping_servos() returns or raises; finally:
\* master.destroy(); sys.exit(0).  Unwinding through an outer _quit runs its
\* finally too, where destroy() of the destroyed application raises TclError
\* in place of SystemExit.
GuiQuitReturn ==
    /\ prog = "gui_runner"
    /\ pc # "exited"
    /\ hdepth > 0
    /\ destroyed' = TRUE
    /\ \E raised \in BOOLEAN :
          Exit(IF hdepth > 1 /\ AtTopLevel THEN 1 ELSE 0,
               IF raised THEN "quit_after_stop_error" ELSE "quit")
    /\ WidgetsGone
    /\ UNCHANGED <<prog, handler, wm_delete, args, servo_ok, status_lbl,
                   quitVia, sigCount, stopCalls, initCfg, invVars>>

----------------------------------------------------------------------------
\* Signals.

\* SIGINT or SIGTERM is delivered between two bytecodes of whatever runs,
\* the handler itself included.  The default disposition ends the process;
\* an installed handler starts with stopping_servos().
Signal ==
    /\ pc # "exited"
    /\ prog \in {"demo_runner", "gui_runner"}
    /\ sigCount < MaxSignals
    /\ sigCount' = sigCount + 1
    /\ \E sg \in Signals :
          IF handler[sg] = "SIG_DFL"
          THEN /\ Exit(KilledBy(sg), "killed")
               /\ UNCHANGED <<stopCalls, quitVia>>
          ELSE /\ hdepth' = hdepth + 1
               /\ stopCalls' = stopCalls + 1
               /\ quitVia' = IF hdepth = 0 THEN "signal" ELSE quitVia
               /\ UNCHANGED <<pc, call, exitCode, exitPath>>
    /\ UNCHANGED <<prog, handler, wm_delete, args, guiVars, status, initCfg,
                   invVars>>

----------------------------------------------------------------------------
\* The inverse fragment of demo_runner.py.

Faces == {"F", "R", "S"}
Amounts == {"0", "1", "2", "3", "4"}

RECURSIVE Flatten(_)
Flatten(ts) == IF ts = <<>> THEN <<>> ELSE Head(ts) \o Flatten(Tail(ts))

\* the move strings of at most MaxTokens tokens
MoveStrings ==
    { Flatten(ts) : ts \in SeqsUpTo({<<f, a>> : f \in Faces, a \in Amounts},
                                    MaxTokens) }

\* the branch taken for one (move, val) token
InvToken_OneWay(move, val) ==
    IF move = "F" THEN <<"F", val>>
    ELSE IF val = "1" THEN <<move, "3">>
    ELSE <<move, val>>

InvToken(move, val) ==
    IF move = "F" THEN <<"F", val>>
    ELSE IF val = "1" THEN <<move, "3">>
    ELSE IF val = "3" THEN <<move, "1">>
    ELSE <<move, val>>

\* reversed() left out: the tokens are inverted in their original order
RECURSIVE Inverse_NoReverse(_)
Inverse_NoReverse(t) ==
    IF Len(t) < 2 THEN <<>>
    ELSE InvToken(t[1], t[2]) \o Inverse_NoReverse(SubSeq(t, 3, Len(t)))

\* "".join(inv): the tokens (t[i], t[i+1]), i = 0, 2, ..., taken in reverse
RECURSIVE Inverse(_)
Inverse(t) ==
    IF Len(t) < 2 THEN <<>>
    ELSE Inverse(SubSeq(t, 3, Len(t))) \o InvToken(t[1], t[2])

InitInv ==
    /\ InitCommon
    /\ prog = "fragment"
    /\ args = NoArgs
    /\ s \in MoveStrings
    /\ inv = <<>>
    /\ inv2 = <<>>

\* the fragment runs on s and prints the inverse
InvertRun ==
    /\ MainFlow("fragment", "start")
    /\ inv' = Inverse(s)
    /\ pc' = "printed"
    /\ UNCHANGED <<prog, handler, wm_delete, args, guiVars, status, call,
                   hdepth, quitVia, sigCount, stopCalls, initCfg, exitCode,
                   exitPath, s, inv2>>

\* the fragment runs again, on what it printed
InvertAgain ==
    /\ MainFlow("fragment", "printed")
    /\ inv2' = Inverse(inv)
    /\ pc' = "printed2"
    /\ UNCHANGED <<prog, handler, wm_delete, args, guiVars, status, call,
                   hdepth, quitVia, sigCount, stopCalls, initCfg, exitCode,
                   exitPath, s, inv>>

NextInv ==
    \/ InvertRun
    \/ InvertAgain

SpecInv == InitInv /\ [][NextInv]_vars

----------------------------------------------------------------------------
Next ==
    \/ BatchRegisterSIGINT
    \/ BatchRegisterSIGTERM
    \/ BatchInitCall
    \/ BatchInitReturn
    \/ BatchRunReturn
    \/ BatchDisplayReturn
    \/ BatchStopCall
    \/ BatchStopReturn
    \/ BatchHandlerReturn
    \/ GuiRegisterSIGINT
    \/ GuiRegisterSIGTERM
    \/ GuiRegisterWMDelete
    \/ GuiAppendMove
    \/ GuiClear
    \/ GuiEdit
    \/ GuiSetOption
    \/ GuiRunClick
    \/ GuiInitReturn
    \/ GuiRunReturn
    \/ GuiDisplayReturn
    \/ GuiDialogDismiss
    \/ GuiSleepDone
    \/ GuiWindowClose
    \/ GuiQuitReturn
    \/ Signal

Spec == Init /\ [][Next]_vars

----------------------------------------------------------------------------
\* Properties.

HandlersInstalled ==
    /\ \A sg \in Signals : handler[sg] # "SIG_DFL"
    /\ prog = "gui_runner" => wm_delete

\* no init_servo call has been made so far
NeverInitialised ==
    \/ pc \in {"start", "reg_sigterm", "reg_wm", "main"}
    \/ /\ prog = "gui_runner"
       /\ pc # "exited"
       /\ status_lbl = "Servo not initialised."
       /\ call.fn # "init_servo"

\* move text the grammar rejects: odd length, a first character that is no
\* face, a second character that is no amount
Malformed(t) ==
    \/ Len(t) % 2 = 1
    \/ \E i \in 1..Len(t) :
          \/ i % 2 = 1 /\ t[i] \notin Faces
          \/ i % 2 = 0 /\ t[i] \notin Amounts

\* the move text of the request being served
RequestText == IF prog = "demo_runner" THEN args.moves ELSE moves

\* the process ended through _quit, whatever its stopping_servos() did
QuitPaths == {"quit", "quit_after_stop_error"}

\* C1: whenever a termination request was handled, the process has ended
\* with stopping_servos() called exactly once in total.
C1_StopExactlyOnce ==
    (pc = "exited" /\ exitPath \in QuitPaths \cup {"interrupt"})
    => stopCalls = 1

\* C2: on every way demo_runner ends (completion, illegal-move status,
\* failed initialisation, interrupt) stopping_servos() was called before.
C2_StopBeforeExit ==
    (prog = "demo_runner" /\ pc = "exited"
        /\ exitPath \in {"completed", "init_failed", "interrupt"})
    => stopCalls >= 1

\* C3: servo_solve_cube is in flight only after an init_servo call returned
\* ok; in the controller only with servo_ok set.
C3_RunOnlyAfterInit ==
    call.fn = "servo_solve_cube"
    => /\ initCfg # NoCfg
       /\ prog = "gui_runner" => servo_ok

\* the lazy init_servo of a run() failed and run() returned without a run
C3_Witness ==
    /\ prog = "gui_runner"
    /\ pc = "idle"
    /\ status_lbl = "Servo init failed!"
    /\ ~servo_ok
    /\ Strip(move_var) # <<>>
    /\ initCfg = NoCfg

\* C4: a run of the controller that returns an illegal-move status leaves
\* servo_ok set and calls no stop, through the report and the pause back to
\* the main loop; the next backend call after the report is a run, not an
\* init_servo.
C4_IllegalMoveStaysReady ==
    [][ /\ (MainFlow("gui_runner", "run") /\ status' # status
               /\ StartsWith(Lower(status'), <<"k", "o">>))
           => (servo_ok' /\ stopCalls' = stopCalls /\ exitCode' = Alive
                 /\ dialog' = "Illegal move")
        /\ (prog = "gui_runner" /\ StartsWith(Lower(status), <<"k", "o">>)
               /\ hdepth = 0 /\ hdepth' = 0)
           => (servo_ok' /\ stopCalls' = stopCalls /\ exitCode' = Alive
                 /\ pc' \in {"sleep", "idle"})
        /\ (prog = "gui_runner" /\ status_lbl = "Error: illegal move"
               /\ call = NoCall /\ call' # NoCall)
           => (call'.fn = "servo_solve_cube" /\ initCfg' = initCfg)
      ]_vars

\* a run is in flight while the label still reports the illegal move of the
\* run before it
C4_Witness ==
    /\ prog = "gui_runner"
    /\ pc = "run"
    /\ call.fn = "servo_solve_cube"
    /\ status_lbl = "Error: illegal move"
    /\ servo_ok

\* C5: when init_servo failed or the run returned a status, demo_runner ends
\* with a non-zero status exactly if init_servo failed: with zero after a
\* completed run, whatever its status.
C5_ExitStatus ==
    (prog = "demo_runner" /\ pc = "exited"
        /\ \/ exitPath = "init_failed"
           \/ exitPath \in {"completed", "exception"} /\ status # NoStatus)
    => (exitCode # 0 <=> exitPath = "init_failed")

\* C6: no init_servo or servo_solve_cube call is made for malformed move
\* text.
C6_MalformedNeverReachesBackend ==
    call.fn \in {"init_servo", "servo_solve_cube"} => ~Malformed(RequestText)

C8_CloseStopsOnce ==
    (prog = "gui_runner" /\ wm_delete /\ exitPath \in QuitPaths)
    => (stopCalls = 1 /\ pc = "exited" /\ destroyed)

\* C9: no stopping_servos() call is in progress while init_servo was never
\* called.
C9_NoStopBeforeInit ==
    (hdepth > 0 \/ call.fn = "stopping_servos") => ~NeverInitialised

\* C10: the inverse of the inverse of a move string is the move string.
C10_InverseInvolution ==
    pc = "printed2" => inv2 = s

\* a three-token string with quarter turns both ways went through twice
C10_Witness ==
    /\ pc = "printed2"
    /\ s = <<"F", "1", "R", "1", "S", "3">>
    /\ inv = <<"S", "1", "R", "3", "F", "1">>
    /\ inv2 = s

\* the documented inverse of one token: Flip keeps its amount; Rotate and
\* Shift turn 1 into 3 and 3 into 1 and keep every other amount
DocInverse(face, amount) ==
    CASE face = "F" -> <<face, amount>>
      [] face # "F" /\ amount = "1" -> <<face, "3">>
      [] face # "F" /\ amount = "3" -> <<face, "1">>
      [] OTHER -> <<face, amount>>

\* token i (from 1) of a move string, as <<face, amount>>
TokenAt(t, i) == <<t[2 * i - 1], t[2 * i]>>

\* C11: the printed inverse of a move string of n tokens has n tokens, and
\* its token n+1-i is the documented inverse of token i of the input.
C11_InverseMirrorsTokens ==
    pc \in {"printed", "printed2"}
    => /\ Len(inv) = Len(s)
       /\ \A i \in 1..(Len(s) \div 2) :
             TokenAt(inv, (Len(s) \div 2) + 1 - i)
                = DocInverse(TokenAt(s, i)[1], TokenAt(s, i)[2])

\* F1R1S3 was inverted once, to S1R3F1
C11_Witness ==
    /\ pc = "printed"
    /\ s = <<"F", "1", "R", "1", "S", "3">>
    /\ inv = <<"S", "1", "R", "3", "F", "1">>

\* what append and clear must leave alone: the session, the option controls
\* and the backend
BufferOnly ==
    UNCHANGED <<servo_ok, status_lbl, start_pos, fast_mode, quiet_mode, pc,
                call, stopCalls, initCfg, hdepth, exitCode>>

\* C12 as stated: a move button leaves the buffer equal to the previous
\* buffer followed by the token, Clear leaves it empty, and neither changes
\* the session state, the option controls or makes a backend call.
C12_AppendKeepsBuffer ==
    [][ /\ GuiAppendMove
           => (BufferOnly /\ \E mv \in MoveButtons : move_var' = move_var \o mv)
        /\ GuiClear => (BufferOnly /\ move_var' = <<>>)
      ]_vars

\* C12 as amended: a move button leaves the buffer equal to the previous
\* buffer without its leading and trailing blanks, followed by the token;
\* Clear leaves it empty; neither changes the session state, the option
\* controls or makes a backend call.
C12_AppendStripsThenAdds ==
    [][ /\ GuiAppendMove
           => (BufferOnly
                 /\ \E mv \in MoveButtons : move_var' = Strip(move_var) \o mv)
        /\ GuiClear => (BufferOnly /\ move_var' = <<>>)
      ]_vars

\* a token was appended to a buffer that already held text
C12_Witness ==
    /\ prog = "gui_runner"
    /\ pc = "idle"
    /\ Len(move_var) = 3
    /\ move_var[1] = "F"
    /\ SubSeq(move_var, 2, 3) \in MoveButtons

\* C13: init_servo is in flight only while no init_servo call has returned
\* ok before: once the session is ready, no run() initialises it again.
C13_NoInitOnceReady ==
    call.fn = "init_servo" => (initCfg = NoCfg /\ ~servo_ok)

\* a second run of a ready session is in flight: the one before it finished
C13_Witness ==
    /\ prog = "gui_runner"
    /\ call.fn = "servo_solve_cube"
    /\ status_lbl = "Finished"
    /\ servo_ok
    /\ initCfg # NoCfg

\* C14: once stopping_servos() has been called, every further step is
\* another interrupt or the end of the process: no init_servo,
\* servo_solve_cube or display call is started, no status is taken from a run,
\* and servo_ok, the status label and the accepted configuration stay as they
\* were.
C14_StopIsTerminal ==
    [][ stopCalls > 0 =>
          /\ pc' \in {pc, "exited"}
          /\ call' \in {call, NoCall}
          /\ status' \in {status, NoStatus}
          /\ servo_ok' = servo_ok
          /\ status_lbl' = status_lbl
          /\ initCfg' = initCfg ]_vars

\* an interrupt has called stopping_servos() while servo_solve_cube is in
\* flight
C14_Witness ==
    /\ pc = "run"
    /\ call.fn = "servo_solve_cube"
    /\ hdepth = 1
    /\ stopCalls = 1
    /\ status = NoStatus

\* C15: when init_servo returns without success in the GUI, the program
\* goes back to its main loop with servo_ok false, "Servo init failed!" in the
\* status label and no backend call started; and while servo_ok is false the
\* next backend call the GUI starts is init_servo, never servo_solve_cube.
C15_InitFailureKeepsGuiUsable ==
    [][ /\ ( /\ MainFlow("gui_runner", "init")
             /\ pc' # pc
             /\ initCfg' = NoCfg )
          => /\ pc' = "idle"
             /\ ~servo_ok'
             /\ status_lbl' = "Servo init failed!"
             /\ call' = NoCall
             /\ exitCode' = Alive
             /\ stopCalls' = stopCalls
        /\ ( /\ prog = "gui_runner"
             /\ ~servo_ok
             /\ call = NoCall
             /\ call' # NoCall )
          => call'.fn = "init_servo" ]_vars

\* after a failed initialisation a later run() has called init_servo again
C15_Witness ==
    /\ prog = "gui_runner"
    /\ pc = "init"
    /\ call.fn = "init_servo"
    /\ status_lbl = "Servo init failed!"
    /\ ~servo_ok

\* C16: whatever the show_on_display call after a completed run does, the
\* batch path goes on to its pause and final stopping_servos(), and the GUI
\* stays alive with servo_ok set.
C16_DisplayFailureNeverAborts ==
    [][ /\ (MainFlow("demo_runner", "disp") /\ pc' # pc)
          => (pc' = "sleep" /\ exitCode' = Alive)
        /\ (MainFlow("gui_runner", "disp") /\ pc' # pc)
          => (servo_ok' /\ exitCode' = Alive /\ pc' \in {"sleep", "dialog"})
      ]_vars

\* C17: every servo_solve_cube call carries the print_out value that the
\* successful init_servo call of the session was given.
C17_RunUsesInitConfig ==
    call.fn = "servo_solve_cube" => call.print_out = initCfg.print_out

\* the entry holds nothing but blanks (the empty text included)
Blank(t) == \A i \in 1..Len(t) : t[i] = " "

SessionAndBuffer ==
    <<servo_ok, status_lbl, move_var, initCfg, stopCalls, exitCode, start_pos,
      fast_mode, quiet_mode>>

\* C18: Run on an empty or all-blank entry starts no backend call and leaves
\* servo_ok, the status label and the entry as they were, whether or not the
\* servos were initialised: it shows the "No moves" box, and dismissing the box
\* returns to the main loop with the same values.
C18_EmptyRunIsNoOp ==
    [][ /\ (MainFlow("gui_runner", "idle") /\ Blank(move_var) /\ pc' # pc)
          => /\ call' = NoCall
             /\ pc' = "dialog"
             /\ dialog' = "No moves"
             /\ UNCHANGED SessionAndBuffer
        /\ (MainFlow("gui_runner", "dialog") /\ dialog = "No moves"
              /\ pc' # pc)
          => /\ call' = NoCall
             /\ pc' = "idle"
             /\ UNCHANGED SessionAndBuffer ]_vars

\* Run was clicked on an entry holding one blank before any initialisation
C18_Witness ==
    /\ prog = "gui_runner"
    /\ pc = "dialog"
    /\ dialog = "No moves"
    /\ move_var = <<" ">>
    /\ ~servo_ok
    /\ status_lbl = "Servo not initialised."
    /\ call = NoCall

\* C19: when servo_solve_cube raises in the GUI, the "Runtime error" box is
\* shown and the program stays alive with servo_ok as it was; dismissing the
\* box returns to the main loop with "Error - see dialog" in the status label;
\* and with that label the next backend call the GUI starts is
\* servo_solve_cube, not init_servo.
C19_RunErrorIsCaught ==
    [][ /\ (MainFlow("gui_runner", "run") /\ pc' # pc /\ status' = NoStatus)
          => /\ pc' = "dialog"
             /\ dialog' = "Runtime error"
             /\ call' = NoCall
             /\ servo_ok' = servo_ok
             /\ exitCode' = Alive
             /\ stopCalls' = stopCalls
        /\ (MainFlow("gui_runner", "dialog") /\ dialog = "Runtime error"
              /\ pc' # pc)
          => /\ pc' = "idle"
             /\ status_lbl' = "Error - see dialog"
             /\ servo_ok' = servo_ok
             /\ exitCode' = Alive
        /\ (prog = "gui_runner" /\ status_lbl = "Error - see dialog"
              /\ call = NoCall /\ call' # NoCall)
          => call'.fn = "servo_solve_cube" ]_vars

\* servo_solve_cube raised (no status was returned) and the box is showing
C19_Witness ==
    /\ prog = "gui_runner"
    /\ pc = "dialog"
    /\ dialog = "Runtime error"
    /\ status = NoStatus
    /\ servo_ok
    /\ exitCode = Alive

\* C20: when the stopping_servos() call of _quit raised in the constructed
\* controller, the window is destroyed and the process has ended with exit
\* status 0.
C20_StopErrorStillExitsZero ==
    (prog = "gui_runner" /\ wm_delete /\ exitPath = "quit_after_stop_error")
    => (pc = "exited" /\ destroyed /\ exitCode = 0)

====
